---------------------------- MODULE Spec2Model ----------------------------
(***************************************************************************)
(* The DotEnv checker of dbainbridge/configure (dotenv.go): a generator    *)
(* supplies a reader, Setup parses its lines into a map, and String, Int   *)
(* and Bool read the map.                                                  *)
(*                                                                         *)
(* A Go string is a sequence of one-character strings, so that splitting,  *)
(* trimming, counting and replacing are computed as the strings package    *)
(* computes them.                                                          *)
(***************************************************************************)
EXTENDS Naturals, Sequences, FiniteSets, TLC

VARIABLES
    gen,         \* h.gen: the lines the generator's reader holds
    values,      \* h.values: the map from key to stored string
    setupState,  \* "none", or how the latest call of h.gen() in Setup ended
    ret,         \* what the latest call returned to its caller
    panicked     \* TRUE once a call has panicked: the process is gone

vars == <<gen, values, setupState, ret, panicked>>

-----------------------------------------------------------------------------
(* Characters the parser looks for.                                        *)

DQ == "\""
SQ == "'"
BS == "\\"
NL == "\n"
CR == "\r"
TAB == "\t"
SP == " "
HASH == "#"
EQ == "="
COLON == ":"

Export == <<"e", "x", "p", "o", "r", "t">>

-----------------------------------------------------------------------------
(* The functions of package strings that dotenv.go calls.                  *)

RECURSIVE Count(_, _)
\* strings.Count(s, c) for a one-character c
Count(s, c) ==
    IF s = <<>> THEN 0
    ELSE (IF Head(s) = c THEN 1 ELSE 0) + Count(Tail(s), c)

\* strings.Contains(s, c) for a one-character c
Contains(s, c) == \E i \in 1..Len(s) : s[i] = c

\* strings.Index(s, c) + 1 for a one-character c; 0 when c does not occur
IndexOf(s, c) ==
    IF Contains(s, c)
    THEN CHOOSE i \in 1..Len(s) : s[i] = c /\ \A j \in 1..(i - 1) : s[j] # c
    ELSE 0

RECURSIVE Split(_, _)
\* strings.Split(s, c) for a one-character c
Split(s, c) ==
    IF s = <<>> THEN << <<>> >>
    ELSE LET rest == Split(Tail(s), c)
         IN  IF Head(s) = c
             THEN << <<>> >> \o rest
             ELSE << <<Head(s)>> \o Head(rest) >> \o Tail(rest)

\* strings.SplitN(s, c, 2) for a one-character c
SplitN2(s, c) ==
    LET i == IndexOf(s, c)
    IN  IF i = 0 THEN <<s>>
        ELSE <<SubSeq(s, 1, i - 1), SubSeq(s, i + 1, Len(s))>>

RECURSIVE Join(_, _)
\* strings.Join(segs, c) for a one-character c
Join(segs, c) ==
    IF segs = <<>> THEN <<>>
    ELSE IF Len(segs) = 1 THEN Head(segs)
    ELSE Head(segs) \o <<c>> \o Join(Tail(segs), c)

\* strings.HasPrefix(s, p)
HasPrefix(s, p) == Len(s) >= Len(p) /\ SubSeq(s, 1, Len(p)) = p

\* strings.TrimPrefix(s, p)
TrimPrefix(s, p) ==
    IF HasPrefix(s, p) THEN SubSeq(s, Len(p) + 1, Len(s)) ELSE s

RECURSIVE TrimLeft(_, _)
TrimLeft(s, cutset) ==
    IF s # <<>> /\ Head(s) \in cutset THEN TrimLeft(Tail(s), cutset) ELSE s

RECURSIVE TrimRight(_, _)
TrimRight(s, cutset) ==
    IF s # <<>> /\ s[Len(s)] \in cutset
    THEN TrimRight(SubSeq(s, 1, Len(s) - 1), cutset)
    ELSE s

\* strings.Trim(s, cutset): every leading and trailing character of cutset
Trim(s, cutset) == TrimRight(TrimLeft(s, cutset), cutset)

RECURSIVE ReplaceAll(_, _, _)
\* strings.Replace(s, old, new, -1) for a non-empty old
ReplaceAll(s, old, new) ==
    IF Len(s) < Len(old) THEN s
    ELSE IF SubSeq(s, 1, Len(old)) = old
         THEN new \o ReplaceAll(SubSeq(s, Len(old) + 1, Len(s)), old, new)
         ELSE <<Head(s)>> \o ReplaceAll(Tail(s), old, new)

-----------------------------------------------------------------------------
(* parseLine and isIgnoredLine.                                            *)

\* TogglesQuotes taking any quote character at all for the edge of a region
TogglesQuotesAny(segment) == Count(segment, DQ) >= 1 \/ Count(segment, SQ) >= 1

\* Whether a segment between two hashes opens or closes a quoted region
TogglesQuotes(segment) == Count(segment, DQ) = 1 \/ Count(segment, SQ) = 1

RECURSIVE KeepSegments(_, _, _)
\* The loop over segmentsBetweenHashes; the result is segmentsToKeep
KeepSegments(segments, quotesAreOpen, segmentsToKeep) ==
    IF segments = <<>> THEN segmentsToKeep
    ELSE LET segment == Head(segments)
             toggles == TogglesQuotes(segment)
             open1 == IF toggles THEN ~quotesAreOpen ELSE quotesAreOpen
             keep1 == IF toggles /\ quotesAreOpen
                      THEN Append(segmentsToKeep, segment)
                      ELSE segmentsToKeep
             keep2 == IF Len(keep1) = 0 \/ open1
                      THEN Append(keep1, segment)
                      ELSE keep1
         IN  KeepSegments(Tail(segments), open1, keep2)

\* "ditch the comments (but keep quoted hashes)"
StripComments(line) ==
    IF Contains(line, HASH)
    THEN Join(KeepSegments(Split(line, HASH), FALSE, <<>>), HASH)
    ELSE line

\* SplitKeyValue trying the yaml separator before '='
SplitKeyValueColonFirst(line) ==
    LET byColon == SplitN2(line, COLON)
    IN  IF Len(byColon) # 2 THEN SplitN2(line, EQ) ELSE byColon

\* "now split key from value", with the retry "try yaml mode!"
SplitKeyValue(line) ==
    LET byEq == SplitN2(line, EQ)
    IN  IF Len(byEq) # 2 THEN SplitN2(line, COLON) ELSE byEq

\* ParseKey leaving the export prefix on the key
ParseKeyKeepExport(raw) == Trim(raw, {SP})

\* "Parse the key"
ParseKey(raw) ==
    LET key == IF HasPrefix(raw, Export) THEN TrimPrefix(raw, Export) ELSE raw
    IN  Trim(key, {SP})

\* "expand quotes", then "expand newlines"
Unescape(value) == ReplaceAll(ReplaceAll(value, <<BS, DQ>>, <<DQ>>), <<BS, "n">>, <<NL>>)

\* "Parse the value"
ParseValue(raw) ==
    LET value == Trim(raw, {SP})
    IN  IF Count(value, DQ) = 2 \/ Count(value, SQ) = 2
        THEN Unescape(Trim(value, {DQ, SQ}))
        ELSE value

\* parseLine(line): err is TRUE for a non-nil error
ParseLine(line) ==
    IF Len(line) = 0 THEN [key |-> <<>>, value |-> <<>>, err |-> TRUE]
    ELSE LET splitString == SplitKeyValue(StripComments(line))
         IN  IF Len(splitString) # 2
             THEN [key |-> <<>>, value |-> <<>>, err |-> TRUE]
             ELSE [key |-> ParseKey(splitString[1]),
                   value |-> ParseValue(splitString[2]),
                   err |-> FALSE]

IsIgnoredLine(line) ==
    LET trimmedLine == Trim(line, {SP, NL, TAB})
    IN  Len(trimmedLine) = 0 \/ HasPrefix(trimmedLine, <<HASH>>)

-----------------------------------------------------------------------------
(* The reader the generator returns, and bufio.Scanner over it.            *)

\* One line of the reader, from its parts: K=V, export K=V, K="V", K=V #T,
\* or the text V as it stands
LineText(l) ==
    CASE l.form = "plain"   -> l.k \o <<EQ>> \o l.v
      [] l.form = "export"  -> Export \o <<SP>> \o l.k \o <<EQ>> \o l.v
      [] l.form = "quoted"  -> l.k \o <<EQ, DQ>> \o l.v \o <<DQ>>
      [] l.form = "comment" -> l.k \o <<EQ>> \o l.v \o <<SP, HASH>> \o l.t
      [] OTHER              -> l.v

RECURSIVE ReaderText(_)
\* The bytes of the reader: every line followed by a newline
ReaderText(ls) ==
    IF ls = <<>> THEN <<>>
    ELSE LineText(Head(ls)) \o <<NL>> \o ReaderText(Tail(ls))

\* bufio.ScanLines drops one trailing carriage return of a line
DropCR(line) ==
    IF line # <<>> /\ line[Len(line)] = CR
    THEN SubSeq(line, 1, Len(line) - 1)
    ELSE line

\* for scanner.Scan() { lines = append(lines, scanner.Text()) }: the text cut
\* at the newlines, without an empty last line
ScanLines(text) ==
    LET parts == Split(text, NL)
        kept == IF parts[Len(parts)] = <<>>
                THEN SubSeq(parts, 1, Len(parts) - 1)
                ELSE parts
    IN  [i \in 1..Len(kept) |-> DropCR(kept[i])]

-----------------------------------------------------------------------------
(* The map h.values.  A nil map reads as an empty one.                     *)

EmptyMap == [k \in {} |-> <<>>]

\* Put keeping the value a key already has
PutIfAbsent(m, key, value) ==
    [k \in DOMAIN m \cup {key} |-> IF k \in DOMAIN m THEN m[k] ELSE value]

\* h.values[key] = value
Put(m, key, value) ==
    [k \in DOMAIN m \cup {key} |-> IF k = key THEN value ELSE m[k]]

\* StoreLine storing what parseLine returns without looking at its error
StoreLineUnchecked(m, fullLine) ==
    IF IsIgnoredLine(fullLine) THEN m
    ELSE Put(m, ParseLine(fullLine).key, ParseLine(fullLine).value)

\* The body of "for _, fullLine := range lines"
StoreLine(m, fullLine) ==
    IF IsIgnoredLine(fullLine) THEN m
    ELSE LET p == ParseLine(fullLine)
         IN  IF p.err THEN m ELSE Put(m, p.key, p.value)

RECURSIVE StoreLines(_, _)
StoreLines(m, lines) ==
    IF lines = <<>> THEN m
    ELSE StoreLines(StoreLine(m, Head(lines)), Tail(lines))

\* The map Setup builds from a reader
SetupValues(ls) == StoreLines(EmptyMap, ScanLines(ReaderText(ls)))

\* The error Setup returns once the generator has succeeded
SetupErr(ls) == FALSE

-----------------------------------------------------------------------------
(* strconv, on the strings the map can hold.                               *)

Digits == {"0", "1", "2", "3", "4", "5", "6", "7", "8", "9"}

DigitVal(c) == CHOOSE n \in 0..9 : <<"0", "1", "2", "3", "4", "5", "6", "7", "8", "9">>[n + 1] = c

RECURSIVE DecVal(_)
\* The number a string of digits writes; 0 for none
DecVal(ds) ==
    IF ds = <<>> THEN 0
    ELSE 10 * DecVal(SubSeq(ds, 1, Len(ds) - 1)) + DigitVal(ds[Len(ds)])

AllDigits(s) == \A i \in 1..Len(s) : s[i] \in Digits

HasSign(s) == s # <<>> /\ Head(s) \in {"+", "-"}

Unsigned(s) == IF HasSign(s) THEN Tail(s) ELSE s

Signed(s, n) == IF HasSign(s) /\ Head(s) = "-" THEN 0 - n ELSE n

\* strconv.ParseFloat(s, 64) followed by int(f): a sign, digits, at most one
\* point, at least one digit.  The exponent, hexadecimal, infinity and NaN
\* spellings need the letters e, x, p, i, f or n beside the digits, and no
\* string here holds them so.
ParseFloat(s) ==
    LET parts == SplitN2(Unsigned(s), ".")
        whole == parts[1]
        frac == IF Len(parts) = 2 THEN parts[2] ELSE <<>>
    IN  IF AllDigits(whole) /\ AllDigits(frac) /\ Len(whole) + Len(frac) > 0
        THEN [ok |-> TRUE, int |-> Signed(s, DecVal(whole))]
        ELSE [ok |-> FALSE, int |-> 0]

\* strconv.ParseInt(s, 10, 64) followed by int(i)
ParseInt(s) ==
    IF Unsigned(s) # <<>> /\ AllDigits(Unsigned(s))
    THEN [ok |-> TRUE, int |-> Signed(s, DecVal(Unsigned(s)))]
    ELSE [ok |-> FALSE, int |-> 0]

BoolTrue == { <<"1">>, <<"t">>, <<"T">>, <<"T", "R", "U", "E">>,
              <<"t", "r", "u", "e">>, <<"T", "r", "u", "e">> }

BoolFalse == { <<"0">>, <<"f">>, <<"F">>, <<"F", "A", "L", "S", "E">>,
               <<"f", "a", "l", "s", "e">>, <<"F", "a", "l", "s", "e">> }

\* strconv.ParseBool(s)
ParseBool(s) ==
    [ok |-> s \in BoolTrue \cup BoolFalse, bool |-> s \in BoolTrue]

-----------------------------------------------------------------------------
(* The accessors.  A return is [op, name, s, i, b, err, panic]: the call,  *)
(* its argument, the result in the field of its type, whether the error is *)
(* non-nil, and whether the call panicked instead of returning.            *)

Return(op, name, s, i, b, err, panic) ==
    [op |-> op, name |-> name, s |-> s, i |-> i, b |-> b, err |-> err,
     panic |-> panic]

\* Value reading the map without looking at whether the key is there
ValueUnchecked(m, name) ==
    [ok |-> TRUE, val |-> IF name \in DOMAIN m THEN m[name] ELSE <<>>]

\* h.value(name): ok is FALSE for "variable does not exist"
Value(m, name) ==
    IF name \in DOMAIN m THEN [ok |-> TRUE, val |-> m[name]]
    ELSE [ok |-> FALSE, val |-> <<>>]

\* h.String(name)
StringOf(m, name) ==
    LET v == Value(m, name)
    IN  IF ~v.ok THEN Return("String", name, <<>>, 0, FALSE, TRUE, FALSE)
        ELSE Return("String", name, v.val, 0, FALSE, FALSE, FALSE)

\* h.Int(name): when neither parse succeeds, the return statement evaluates
\* v.(int) on a string and panics
IntOf(m, name) ==
    LET v == Value(m, name)
        f == ParseFloat(v.val)
        i == ParseInt(v.val)
    IN  IF ~v.ok THEN Return("Int", name, <<>>, 0, FALSE, TRUE, FALSE)
        ELSE IF f.ok THEN Return("Int", name, <<>>, f.int, FALSE, FALSE, FALSE)
        ELSE IF i.ok THEN Return("Int", name, <<>>, i.int, FALSE, FALSE, FALSE)
        ELSE Return("Int", name, <<>>, 0, FALSE, FALSE, TRUE)

\* h.Bool(name)
BoolOf(m, name) ==
    LET v == Value(m, name)
        b == ParseBool(v.val)
    IN  IF ~v.ok THEN Return("Bool", name, <<>>, 0, FALSE, TRUE, FALSE)
        ELSE Return("Bool", name, <<>>, 0, b.bool, ~b.ok, FALSE)

-----------------------------------------------------------------------------
(* The calls a program makes on one DotEnv.                                *)

NoReturn == Return("none", <<>>, <<>>, 0, FALSE, FALSE, FALSE)

\* A name the reader never stores
MissingName == <<"m", "i", "s", "s", "i", "n", "g">>

\* The key text of a line as written, before parseLine touches it
WrittenKeys(ls) == {ls[i].k : i \in 1..Len(ls)}

\* The names a caller asks for: the keys written, the keys stored, and one
\* that is neither
Names == WrittenKeys(gen) \cup DOMAIN values \cup {MissingName}

\* h.Setup(): the generator fails (the map is left as it was) or returns the
\* reader
Setup ==
    /\ ~panicked
    /\ \E genErr \in BOOLEAN :
         IF genErr
         THEN /\ setupState' = "failed"
              /\ ret' = Return("Setup", <<>>, <<>>, 0, FALSE, TRUE, FALSE)
              /\ UNCHANGED values
         ELSE /\ setupState' = "ok"
              /\ values' = SetupValues(gen)
              /\ ret' = Return("Setup", <<>>, <<>>, 0, FALSE, SetupErr(gen), FALSE)
    /\ UNCHANGED <<gen, panicked>>

Call(r) ==
    /\ ret' = r
    /\ panicked' = r.panic
    /\ UNCHANGED <<gen, values, setupState>>

String == ~panicked /\ \E name \in Names : Call(StringOf(values, name))

Int == ~panicked /\ \E name \in Names : Call(IntOf(values, name))

Bool == ~panicked /\ \E name \in Names : Call(BoolOf(values, name))

Next == Setup \/ String \/ Int \/ Bool

\* NewDotEnv(gen) over the readers of Sources
InitWith(Sources) ==
    /\ gen \in Sources
    /\ values = EmptyMap
    /\ setupState = "none"
    /\ ret = NoReturn
    /\ panicked = FALSE

-----------------------------------------------------------------------------
(* The readers the checks run over.                                        *)

\* The longest key, value, quoted content or comment, in pieces
MaxAtoms == 2

\* The longest reader of SpecLines, in lines
MaxLines == 3

RECURSIVE Strs(_, _)
\* The strings made of at most n pieces of atoms
Strs(atoms, n) ==
    IF n = 0 THEN {<<>>}
    ELSE LET shorter == Strs(atoms, n - 1)
         IN  shorter \cup {a \o s : a \in atoms, s \in shorter}

Line(form, k, v, t) == [form |-> form, k |-> k, v |-> v, t |-> t]

Accessors == {"String", "Int", "Bool"}

Key == <<"K">>

\* s=hello, the first line of the dotenv file TestDotEnv reads
Hello == Line("plain", <<"s">>, <<"h", "e", "l", "l", "o">>, <<>>)

Keys == Strs({Key, Export}, MaxAtoms) \ {<<>>}

PlainValues == Strs({<<"1">>, <<"a">>, <<COLON>>}, MaxAtoms) \ {<<>>}

\* K=V and export K=V
KeyValueLines ==
    {Line(form, k, v, <<>>) : form \in {"plain", "export"}, k \in Keys,
                              v \in PlainValues}

\* One such line, alone or beside s=hello
KeyValueSources ==
    UNION {{<<l>>, <<l, Hello>>, <<Hello, l>>} : l \in KeyValueLines}

QuotedContents == Strs({<<"a">>, <<HASH>>, <<SQ>>, <<BS, DQ>>, <<BS, "n">>}, MaxAtoms)

CommentedValues == Strs({<<"a">>, <<SP>>}, MaxAtoms)

Comments == Strs({<<"a">>, <<SQ>>, <<DQ>>, <<HASH>>}, MaxAtoms)

\* K="C" and K=V #T
QuotingSources ==
    {<<Line("quoted", Key, c, <<>>)>> : c \in QuotedContents}
    \cup {<<Line("comment", Key, v, t)>> : v \in CommentedValues, t \in Comments}

\* Lines that store K or s, a yaml line, a comment line, a blank line and
\* a line with no separator left once its comment is stripped
LinePool ==
    { Line("plain", Key, <<"1">>, <<>>),
      Line("plain", Key, <<"a">>, <<>>),
      Line("plain", <<"s">>, <<"1">>, <<>>),
      Line("raw", Key, <<"K", COLON, SP, "b">>, <<>>),
      Line("raw", <<>>, <<HASH, SP, "K", EQ, "c">>, <<>>),
      Line("raw", <<>>, <<>>, <<>>),
      Line("raw", <<>>, <<"j", "u", "n", "k", SP, HASH, EQ>>, <<>>) }

RECURSIVE Readers(_, _)
\* The readers of at most n lines of pool
Readers(pool, n) ==
    IF n = 0 THEN {<<>>}
    ELSE LET shorter == Readers(pool, n - 1)
         IN  shorter \cup {<<l>> \o r : l \in pool, r \in shorter}

LineSources == Readers(LinePool, MaxLines)

Init == InitWith(KeyValueSources)

InitQuoting == InitWith(QuotingSources)

InitLines == InitWith(LineSources)

Spec == Init /\ [][Next]_vars

SpecQuoting == InitQuoting /\ [][Next]_vars

SpecLines == InitLines /\ [][Next]_vars

-----------------------------------------------------------------------------
(* Claims about key=value readers, checked under Spec.                     *)

\* A non-empty token with no space, '#', '=' or quote character
PlainToken(s) ==
    s # <<>> /\ \A i \in 1..Len(s) : s[i] \notin {SP, HASH, EQ, SQ, DQ}

\* Every line of the reader is K=V with plain tokens, no key beginning with
\* "export", and no key written twice
PlainReader ==
    /\ \A i \in 1..Len(gen) :
         /\ gen[i].form = "plain"
         /\ PlainToken(gen[i].k) /\ PlainToken(gen[i].v)
         /\ ~HasPrefix(gen[i].k, Export)
    /\ \A i, j \in 1..Len(gen) : gen[i].k = gen[j].k => i = j

\* C1: after Setup has read a reader of plain K=V lines with distinct keys,
\* the map holds V under every K, String(K) returns V with a nil error,
\* Int(K) returns 1 with a nil error where V is "1", and String of a key
\* no line writes returns an error.
C1_PlainLinesStored ==
    (setupState = "ok" /\ PlainReader) =>
        /\ \A i \in 1..Len(gen) :
             /\ gen[i].k \in DOMAIN values
             /\ values[gen[i].k] = gen[i].v
             /\ (ret.op = "String" /\ ret.name = gen[i].k) =>
                    (ret.s = gen[i].v /\ ~ret.err /\ ~ret.panic)
             /\ (ret.op = "Int" /\ ret.name = gen[i].k /\ gen[i].v = <<"1">>) =>
                    (ret.i = 1 /\ ~ret.err /\ ~ret.panic)
        /\ (ret.op = "String" /\ ret.name \notin WrittenKeys(gen)) => ret.err

\* Int("K") has returned 1 from a two-line reader one of whose lines is K=1
C1_Witness ==
    /\ setupState = "ok" /\ PlainReader /\ Len(gen) = 2
    /\ ret.op = "Int" /\ ret.i = 1 /\ ~ret.err
    /\ \E i \in 1..Len(gen) : gen[i].k = ret.name /\ gen[i].v = <<"1">>

\* C2: whatever Setup calls came before, an accessor asked for a key the
\* map does not hold returns a non-nil error and the zero value of its
\* type, and does not panic.
C2_MissingKeyIsError ==
    (ret.op \in Accessors /\ ret.name \notin DOMAIN values) =>
        /\ ret.err /\ ~ret.panic
        /\ ret.s = <<>> /\ ret.i = 0 /\ ret.b = FALSE

\* Int of a missing key has returned while the map, kept from an earlier
\* Setup, holds other keys and the latest Setup has failed
C2_Witness ==
    /\ setupState = "failed" /\ values # EmptyMap
    /\ ret.op = "Int" /\ ret.name \notin DOMAIN values /\ ret.err

\* C3: Int of a key whose stored string parses neither as a float nor as a
\* base-10 integer returns a non-nil error and does not panic.
C3_IntErrorNoPanic ==
    (/\ ret.op = "Int" /\ ret.name \in DOMAIN values
     /\ ~ParseFloat(values[ret.name]).ok /\ ~ParseInt(values[ret.name]).ok) =>
        (ret.err /\ ~ret.panic /\ ~panicked)

\* A key with no space, '=', ':', '#' or quote character
ExportableKey(k) ==
    k # <<>> /\ \A i \in 1..Len(k) : k[i] \notin {SP, EQ, COLON, HASH, SQ, DQ}

\* The reader is the one line "K=V" or the one line "export K=V"
OneKeyValueLine ==
    Len(gen) = 1 /\ gen[1].form \in {"plain", "export"} /\ ExportableKey(gen[1].k)

\* Setup over "K=V" and over "export K=V" build one and the same map, which
\* holds V under K, and String(K) returns V with a nil error
SameStoreWithExport ==
    LET k == gen[1].k
        v == gen[1].v
    IN  /\ values = SetupValues(<<Line("plain", k, v, <<>>)>>)
        /\ values = SetupValues(<<Line("export", k, v, <<>>)>>)
        /\ k \in DOMAIN values /\ values[k] = v
        /\ (ret.op = "String" /\ ret.name = k) => (ret.s = v /\ ~ret.err)

\* C7 as stated: for every key K, "export K=V" and "K=V" build the same map,
\* and String(K) returns V in both.
C7_ExportAnyKey ==
    (setupState = "ok" /\ OneKeyValueLine) => SameStoreWithExport

\* C7 amended: the same for every key K that does not itself begin with
\* "export".
C7_ExportSameStore ==
    (setupState = "ok" /\ OneKeyValueLine /\ ~HasPrefix(gen[1].k, Export)) =>
        SameStoreWithExport

\* String(K) has returned V after Setup over "export K=V", K holding
\* "export" further on
C7_Witness ==
    /\ setupState = "ok" /\ OneKeyValueLine /\ gen[1].form = "export"
    /\ ~HasPrefix(gen[1].k, Export) /\ Len(gen[1].k) > Len(Export)
    /\ ret.op = "String" /\ ret.name = gen[1].k /\ ret.s = gen[1].v /\ ~ret.err

\* C8: once a Setup call has failed on the generator, and until a later one
\* succeeds, the map holds nothing and every accessor returns an error.
C8_NoValuesAfterFailedSetup ==
    setupState = "failed" =>
        /\ values = EmptyMap
        /\ ret.op \in Accessors => ret.err

-----------------------------------------------------------------------------
(* Claims about quotes and comments, checked under SpecQuoting.            *)

\* Setup has read the one line K="C"
QuotedLineRead == setupState = "ok" /\ Len(gen) = 1 /\ gen[1].form = "quoted"

\* Setup has read the one line K=V #T, V holding no '#' and no quote
CommentLineRead ==
    /\ setupState = "ok" /\ Len(gen) = 1 /\ gen[1].form = "comment"
    /\ \A i \in 1..Len(gen[1].v) : gen[1].v[i] \notin {HASH, SQ, DQ}

\* Every double quote of c is written \"
QuotesEscaped(c) ==
    \A i \in 1..Len(c) : c[i] = DQ => (i > 1 /\ c[i - 1] = BS)

\* c with \" written as a double quote and \n as a newline
Expanded(c) == ReplaceAll(ReplaceAll(c, <<BS, DQ>>, <<DQ>>), <<BS, "n">>, <<NL>>)

\* C4: for a line K="C" whose content holds \" (and no other quote or
\* hash), the map holds under K the content without the enclosing quotes,
\* every \" turned into a double quote and every \n into a newline.
C4_EscapedQuoteExpanded ==
    (/\ QuotedLineRead
     /\ Contains(gen[1].v, DQ) /\ QuotesEscaped(gen[1].v)
     /\ ~Contains(gen[1].v, SQ) /\ ~Contains(gen[1].v, HASH)) =>
        (gen[1].k \in DOMAIN values /\ values[gen[1].k] = Expanded(gen[1].v))

NoLoneQuote(t) ==
    LET segs == Split(t, HASH)
    IN  \A i \in 1..Len(segs) : Count(segs[i], DQ) # 1 /\ Count(segs[i], SQ) # 1

C6_QuotedContentKept ==
    (QuotedLineRead /\ ~Contains(gen[1].v, DQ) /\ ~Contains(gen[1].v, BS)) =>
        (gen[1].k \in DOMAIN values /\ values[gen[1].k] = gen[1].v)

-----------------------------------------------------------------------------
(* Claims about readers of several lines, checked under SpecLines.         *)

\* Line i of the reader; no line written here holds a line end, so it is
\* also the i-th line the scanner hands to Setup
ScannedLine(i) == LineText(gen[i])

\* Setup passes line i to parseLine and parseLine returns no error
Parses(i) == ~IsIgnoredLine(ScannedLine(i)) /\ ~ParseLine(ScannedLine(i)).err

\* Line i is the last line of the reader that parses to its key
LastOfItsKey(i) ==
    \A j \in 1..Len(gen) :
        (Parses(j) /\ ParseLine(ScannedLine(j)).key = ParseLine(ScannedLine(i)).key)
            => j <= i

\* C9: after Setup the map holds, under every key some line parses to, the
\* value of the last line that parses to that key, and holds no other key.
C9_LastOccurrenceWins ==
    setupState = "ok" =>
        /\ \A i \in 1..Len(gen) :
             (Parses(i) /\ LastOfItsKey(i)) =>
                 /\ ParseLine(ScannedLine(i)).key \in DOMAIN values
                 /\ values[ParseLine(ScannedLine(i)).key] = ParseLine(ScannedLine(i)).value
        /\ DOMAIN values = {ParseLine(ScannedLine(i)).key : i \in {j \in 1..Len(gen) : Parses(j)}}

\* Two lines that parse to K with different values, another line between
\* them, and the map holds the later value
C9_Witness ==
    /\ setupState = "ok" /\ Len(gen) = 3
    /\ Parses(1) /\ Parses(3) /\ ~Parses(2)
    /\ ParseLine(ScannedLine(1)).key = ParseLine(ScannedLine(3)).key
    /\ ParseLine(ScannedLine(1)).value # ParseLine(ScannedLine(3)).value
    /\ values[ParseLine(ScannedLine(3)).key] = ParseLine(ScannedLine(3)).value

\* Line i is not ignored and, its comment stripped, holds no '=' and no ':'
Malformed(i) ==
    /\ ~IsIgnoredLine(ScannedLine(i))
    /\ ~Contains(StripComments(ScannedLine(i)), EQ)
    /\ ~Contains(StripComments(ScannedLine(i)), COLON)

\* The reader without its line i
WithoutLine(i) == SubSeq(gen, 1, i - 1) \o SubSeq(gen, i + 1, Len(gen))

\* C10: a malformed line is skipped: Setup returns nil and the map is the
\* one Setup builds from the reader without that line; Setup returns an
\* error only when the generator does.
C10_MalformedLineSkipped ==
    /\ setupState = "ok" =>
         \A i \in 1..Len(gen) :
             Malformed(i) => values = SetupValues(WithoutLine(i))
    /\ ret.op = "Setup" => (ret.err <=> setupState = "failed")

\* Setup has returned nil over a reader with a malformed line between two
\* lines that are stored
C10_Witness ==
    /\ setupState = "ok" /\ ret.op = "Setup" /\ ~ret.err
    /\ Len(gen) = 3 /\ Malformed(2) /\ Parses(1) /\ Parses(3)
    /\ Cardinality(DOMAIN values) = 2

=============================================================================
